---------------------------- MODULE Spec2Model ----------------------------
(***************************************************************************)
(* A model of pyVisualCrossing/api.py: the Transport Adapter               *)
(* (VisualCrossingAPI), the Client Facade (VisualCrossing) and the         *)
(* Response Mapper (_fetch_data, _get_current_data).                       *)
(*                                                                         *)
(* Three specifications share the actions:                                 *)
(*   Spec        sessions, adapters and provider responses, two facades    *)
(*               constructed with the default days and language;           *)
(*   SpecParams  one facade constructed with every days / language input;  *)
(*   SpecMapper  the mapper applied to every bounded payload at every      *)
(*               wall-clock time of a host in a fixed-offset or a          *)
(*               daylight-saving time zone.                                *)
(***************************************************************************)
EXTENDS Integers, Sequences, FiniteSets, TLC

VARIABLES
    fac,            \* fac[f]: the fields of VisualCrossing instance f
    adapterSession, \* adapterSession[a]: VisualCrossingAPI instance a's self.session
    sessState,      \* sessState[s]: "unborn", "open" or "closed" aiohttp.ClientSession s
    call,           \* call[f]: instance f's async_fetch_data coroutine (its locals, where it is suspended)
    last,           \* history: the most recently ended fetch call and how it ended
    actor,          \* history: the instance the last step constructed or called
    payload,        \* SpecMapper: the raw document handed to _fetch_data
    now,            \* the host's wall clock, datetime.datetime.now(), as a POSIX time
    tz,             \* the host's time zone: "UTC" or "DST"
    mapped          \* SpecMapper: what each _fetch_data(payload) so far ended in

vars == <<fac, adapterSession, sessState, call, last, actor, payload, now, tz, mapped>>

-----------------------------------------------------------------------------
(* Bounds *)

MaxDaysGiven == 16  \* SpecParams: days arguments range over -1 .. MaxDaysGiven, and 20
MaxDays == 2        \* SpecMapper: day objects in a payload
MaxHours == 2       \* SpecMapper: hour objects in a day
MaxEpoch == 4       \* SpecMapper: epochs and the clock range over 0 .. MaxEpoch (half hours)
MaxRuns == 2        \* SpecMapper: times the same payload is mapped

-----------------------------------------------------------------------------
(* Objects.  Instances, adapters and sessions are numbered:                *)
(* adapter 0 is the one VisualCrossingAPI() the def statement of           *)
(* VisualCrossing.__init__ evaluates as the default of `api`; adapter f is  *)
(* a VisualCrossingAPI() the caller builds for instance f and passes.      *)

Facades == {1, 2}

DefaultAdapter == 0

OwnAdapter(f) == f

Adapters == {DefaultAdapter} \cup {OwnAdapter(f) : f \in Facades}

NoSession == 0

\* The aiohttp.ClientSession instance f's caller owns and may pass as `session`.
CallerSession(f) == f

CallerSessions == {CallerSession(f) : f \in Facades}

\* The session adapter a makes at api.py:111.  self.session is never set back
\* to None, so an adapter makes at most one.
MadeBy(a) == Cardinality(Facades) + 1 + a

Sessions == CallerSessions \cup {MadeBy(a) : a \in Adapters}

-----------------------------------------------------------------------------
(* Python values *)

PyNone == [tag |-> "None"]

PyDict(d) == [tag |-> "dict", d |-> d]

\* dict.get(key, None): a one-element sequence holds a value, <<>> is None.
Get(item, key) == IF key \in DOMAIN item THEN <<item[key]>> ELSE <<>>

-----------------------------------------------------------------------------
(* Time.  A POSIX time counts half hours.  The "DST" host leaves daylight   *)
(* saving time at FoldAt: its UTC offset falls by one hour there.          *)

HalfHoursPerHour == 2

FoldAt == 3

UtcOffset(zone, t) == IF zone = "DST" /\ t < FoldAt THEN HalfHoursPerHour ELSE 0

\* datetime.datetime.fromtimestamp(t): the naive local wall time of t.
fromtimestamp(zone, t) == t + UtcOffset(zone, t)

\* datetime.datetime.utcfromtimestamp(t).replace(tzinfo=UTC): an aware instant.
utcfromtimestamp(t) == [utc |-> t]

-----------------------------------------------------------------------------
(* The Response Mapper *)

_get_current_data(api_result) ==
    IF "currentConditions" \notin DOMAIN api_result.d
    THEN [tag |-> "raise", exc |-> "KeyError", key |-> "currentConditions"]
    ELSE LET item == api_result.d["currentConditions"] IN
         IF "datetimeEpoch" \notin DOMAIN item
         THEN [tag |-> "raise", exc |-> "KeyError", key |-> "datetimeEpoch"]
         ELSE [tag |-> "ForecastData",
               datetime |-> utcfromtimestamp(item["datetimeEpoch"]),
               temperature |-> Get(item, "temp"),
               location_name |-> Get(api_result.d, "address"),
               forecast_daily |-> <<>>,
               forecast_hourly |-> <<>>]

ForecastDailyData(item) ==
    [datetime |-> utcfromtimestamp(item["datetimeEpoch"]),
     temperature |-> Get(item, "tempmax"),
     temp_low |-> Get(item, "tempmin")]

ForecastHourlyData(zone, row) ==
    [datetime |-> fromtimestamp(zone, row["datetimeEpoch"]),
     temperature |-> Get(row, "temp")]

\* The inner loop, api.py:254-293, over the rows of one day from row i on.
RECURSIVE HourlyOf(_, _, _, _)
HourlyOf(zone, clock, hours, i) ==
    IF i > Len(hours) THEN <<>>
    ELSE LET row == hours[i]
             valid_time == fromtimestamp(zone, row["datetimeEpoch"])
             rest == HourlyOf(zone, clock, hours, i + 1)
         IN IF valid_time > fromtimestamp(zone, clock)
            THEN <<ForecastHourlyData(zone, row)>> \o rest
            ELSE rest

\* The outer loop, api.py:213-293, from day i on: the pair of lists built.
RECURSIVE DaysLoop(_, _, _, _)
DaysLoop(zone, clock, days, i) ==
    IF i > Len(days) THEN [daily |-> <<>>, hourly |-> <<>>]
    ELSE LET item == days[i]
             rest == DaysLoop(zone, clock, days, i + 1)
         IN [daily |-> <<ForecastDailyData(item)>> \o rest.daily,
             hourly |-> HourlyOf(zone, clock, item["hours"], 1) \o rest.hourly]

\* _fetch_data past its None check, api.py:206-298.
MapDocument(api_result, clock, zone) ==
    LET weather_data == _get_current_data(api_result) IN
    IF weather_data.tag = "raise" THEN weather_data
    ELSE IF "days" \notin DOMAIN api_result.d
    THEN [tag |-> "raise", exc |-> "KeyError", key |-> "days"]
    ELSE LET lists == DaysLoop(zone, clock, api_result.d["days"], 1) IN
         [weather_data EXCEPT !.forecast_daily = lists.daily,
                              !.forecast_hourly = lists.hourly]

\* Faulty variant: no None check; None["currentConditions"] raises TypeError.
_fetch_data_NoNoneCheck(api_result, clock, zone) ==
    IF api_result = PyNone
    THEN [tag |-> "raise", exc |-> "TypeError", key |-> "currentConditions"]
    ELSE MapDocument(api_result, clock, zone)

_fetch_data(api_result, clock, zone) ==
    IF api_result = PyNone THEN PyNone
    ELSE MapDocument(api_result, clock, zone)

-----------------------------------------------------------------------------
(* The provider's answers.  Status 0 stands for no HTTP response at all    *)
(* (DNS failure, connection refused); the body "<cut>" for a body that     *)
(* cannot be read: the connection is lost, or closed under the response.   *)

Statuses == {200, 400, 401, 404, 429, 500}

MappedStatuses == {400, 401, 429, 500}

NoResponse == [status |-> 0, body |-> "<none>"]

Responses ==
    {NoResponse}
    \cup {[status |-> 200, body |-> b] : b \in {"forecast", "{}", "null", "<html>", "<cut>"}}
    \cup {[status |-> s, body |-> "<html>"] : s \in MappedStatuses}
    \cup {[status |-> s, body |-> b] :
            s \in Statuses \ (MappedStatuses \cup {200}), b \in {"forecast", "<html>", "<cut>"}}

\* The well-formed document of the body "forecast": current conditions, one
\* day, an hour at 01:00 and an hour at 04:00 (counted in half hours).
SampleForecast ==
    PyDict([currentConditions |-> [datetimeEpoch |-> 3, temp |-> 15],
            address |-> "home",
            days |-> <<[datetimeEpoch |-> 0, tempmax |-> 18, tempmin |-> 10,
                        hours |-> <<[datetimeEpoch |-> 2, temp |-> 12],
                                    [datetimeEpoch |-> 8, temp |-> 16]>>]>>])

EmptyDict == PyDict(<<>>)

\* json.loads(data): the value, or JSONDecodeError.
json_loads(data) ==
    CASE data = "forecast" -> [exc |-> "", value |-> SampleForecast]
      [] data = "{}" -> [exc |-> "", value |-> EmptyDict]
      [] data = "null" -> [exc |-> "", value |-> PyNone]
      [] OTHER -> [exc |-> "JSONDecodeError", value |-> PyNone]

Raise(exc) == [exc |-> exc, value |-> PyNone]

Return(value) == [exc |-> "", value |-> value]

-----------------------------------------------------------------------------
(* The Transport Adapter *)

\* The if/elif chain on errh.code, api.py:84-99: the exception raised, or ""
\* when no branch is taken and control falls to `return None`.
HTTPErrorRaised(code) ==
    CASE code = 400 -> "VisualCrossingBadRequest"
      [] code = 401 -> "VisualCrossingUnauthorized"
      [] code = 429 -> "VisualCrossingTooManyRequests"
      [] code = 500 -> "VisualCrossingInternalServerError"
      [] OTHER -> ""

\* VisualCrossingAPI.fetch_data on the provider's answer resp.  urlopen
\* raises URLError when there is no response and HTTPError on an error status.
API_fetch_data(resp) ==
    IF resp.status = 0 THEN Raise("URLError")
    ELSE IF resp.status = 200
    THEN IF resp.body = "<cut>" THEN Raise("ConnectionError")
         ELSE json_loads(resp.body)
    ELSE IF HTTPErrorRaised(resp.status) # ""
    THEN Raise(HTTPErrorRaised(resp.status))
    ELSE Return(PyNone)

\* Faulty variant: the chain without its 429 branch.
StatusRaised_No429(status) ==
    CASE status = 400 -> "VisualCrossingBadRequest"
      [] status = 401 -> "VisualCrossingUnauthorized"
      [] status = 500 -> "VisualCrossingInternalServerError"
      [] OTHER -> ""

\* The chain of ifs on response.status, api.py:118-133: the exception raised,
\* or "" when control falls through to `data = await response.text()`.
StatusRaised(status) ==
    CASE status = 400 -> "VisualCrossingBadRequest"
      [] status = 401 -> "VisualCrossingUnauthorized"
      [] status = 429 -> "VisualCrossingTooManyRequests"
      [] status = 500 -> "VisualCrossingInternalServerError"
      [] OTHER -> ""

\* Whether `await self.session.close()` runs in the part of
\* VisualCrossingAPI.async_fetch_data after the GET, api.py:114-138.
AsyncCloses(is_new_session, resp) ==
    /\ is_new_session
    /\ resp.status # 0
    /\ \/ resp.status # 200
       \/ resp.body # "<cut>"

\* What that part ends in.  session.get raises ClientError when there is no
\* response and response.text() raises it when the body cannot be read.
AsyncOutcome(resp) ==
    IF resp.status = 0 THEN Raise("ClientError")
    ELSE IF resp.status # 200 /\ StatusRaised(resp.status) # ""
    THEN Raise(StatusRaised(resp.status))
    ELSE IF resp.body = "<cut>" THEN Raise("ClientError")
    ELSE json_loads(resp.body)

-----------------------------------------------------------------------------
(* The Client Facade *)

\* api.py:17 imports SUPPORTED_LANGUAGES from const.py, which does not define
\* it: the set is taken from the specification ("a fixed supported-language
\* set", with "en" the fallback).
SUPPORTED_LANGUAGES == {"en", "de", "fr"}

\* Faulty variant: the horizon is stored as given.
InitDays_NoClamp(days) == days

\* self._days after __init__, api.py:158 and 163-164.
InitDays(days) == IF days > 14 THEN 14 ELSE days

\* Faulty variant: the language is stored as given.
InitLanguage_NoFallback(language) == language

\* self._language after __init__, api.py:159 and 169-170.
InitLanguage(language) ==
    IF language \notin SUPPORTED_LANGUAGES THEN "en" ELSE language

Unbuilt ==
    [built |-> FALSE, days |-> 0, language |-> "", api |-> DefaultAdapter,
     json_data |-> PyNone, givenDays |-> 0, givenLanguage |-> ""]

\* The arguments VisualCrossing.fetch_data / async_fetch_data hand to the
\* adapter, api.py:175-181 and 188-194; f stands for (api_key, latitude, longitude).
Request(f) == [target |-> f, days |-> fac[f].days, language |-> fac[f].language]

NoCall ==
    [f |-> 0, mode |-> "none", req |-> [target |-> 0, days |-> 0, language |-> ""],
     resp |-> NoResponse, exc |-> "", raw |-> [tag |-> "no return"],
     result |-> PyNone, is_new_session |-> FALSE, on |-> NoSession, onState |-> "unborn"]

Idle == [pc |-> "idle", is_new_session |-> FALSE, on |-> NoSession,
         req |-> [target |-> 0, days |-> 0, language |-> ""]]

\* How a facade call ends, given what the adapter call ended in: the
\* adapter's exception propagates; otherwise the mapper runs on its value.
FacadeEnd(out) ==
    IF out.exc # "" THEN [exc |-> out.exc, raw |-> [tag |-> "no return"], result |-> PyNone]
    ELSE LET m == _fetch_data(out.value, now, tz) IN
         IF m.tag = "raise" THEN [exc |-> m.exc, raw |-> out.value, result |-> PyNone]
         ELSE [exc |-> "", raw |-> out.value, result |-> m]

\* self._json_data after the call: assigned only when the adapter returned.
JsonAfter(f, out) == IF out.exc # "" THEN fac[f].json_data ELSE out.value

\* VisualCrossing.__init__
Construct(f, days, language, session, api) ==
    /\ ~fac[f].built
    /\ fac' = [fac EXCEPT ![f] =
                 [built |-> TRUE, days |-> InitDays(days),
                  language |-> InitLanguage(language), api |-> api,
                  json_data |-> PyNone, givenDays |-> days, givenLanguage |-> language]]
    /\ adapterSession' = IF session # NoSession
                         THEN [adapterSession EXCEPT ![api] = session]
                         ELSE adapterSession
    /\ actor' = f
    /\ UNCHANGED <<sessState, call, last, payload, now, tz, mapped>>

\* VisualCrossing.fetch_data, the blocking call, with the adapter's fetch_data.
\* An instance runs one call at a time.
fetch_data(f, resp) ==
    /\ fac[f].built
    /\ call[f].pc = "idle"
    /\ LET out == API_fetch_data(resp)
           end == FacadeEnd(out)
       IN /\ fac' = [fac EXCEPT ![f].json_data = JsonAfter(f, out)]
          /\ last' = [f |-> f, mode |-> "sync", req |-> Request(f), resp |-> resp,
                      exc |-> end.exc, raw |-> end.raw, result |-> end.result,
                      is_new_session |-> FALSE, on |-> NoSession, onState |-> "unborn"]
    /\ actor' = f
    /\ UNCHANGED <<adapterSession, sessState, call, payload, now, tz, mapped>>

\* VisualCrossing.async_fetch_data up to the await of the GET, api.py:107-114:
\* the coroutine is suspended, or session.get raises RuntimeError("Session is
\* closed") at once.
async_fetch_data_start(f) ==
    /\ fac[f].built
    /\ call[f].pc = "idle"
    /\ LET a == fac[f].api
           is_new_session == adapterSession[a] = NoSession
           s == IF is_new_session THEN MadeBy(a) ELSE adapterSession[a]
           atGet == IF is_new_session THEN "open" ELSE sessState[s]
       IN /\ adapterSession' = [adapterSession EXCEPT ![a] = s]
          /\ sessState' = [sessState EXCEPT ![s] = atGet]
          /\ IF atGet = "closed"
             THEN /\ last' = [f |-> f, mode |-> "async", req |-> Request(f),
                              resp |-> NoResponse, exc |-> "RuntimeError",
                              raw |-> [tag |-> "no return"], result |-> PyNone,
                              is_new_session |-> is_new_session, on |-> s,
                              onState |-> atGet]
                  /\ call' = call
             ELSE /\ call' = [call EXCEPT ![f] =
                                [pc |-> "await", is_new_session |-> is_new_session,
                                 on |-> s, req |-> Request(f)]]
                  /\ last' = last
    /\ actor' = f
    /\ UNCHANGED <<fac, payload, now, tz, mapped>>

\* VisualCrossing.async_fetch_data from the provider's answer on, api.py:114-138
\* and 188-196.  self.session is read again at each close.
async_fetch_data_resume(f, resp) ==
    /\ call[f].pc = "await"
    /\ LET a == fac[f].api
           out == AsyncOutcome(resp)
           end == FacadeEnd(out)
       IN /\ sessState' = IF AsyncCloses(call[f].is_new_session, resp)
                          THEN [sessState EXCEPT ![adapterSession[a]] = "closed"]
                          ELSE sessState
          /\ fac' = [fac EXCEPT ![f].json_data = JsonAfter(f, out)]
          /\ last' = [f |-> f, mode |-> "async", req |-> call[f].req, resp |-> resp,
                      exc |-> end.exc, raw |-> end.raw, result |-> end.result,
                      is_new_session |-> call[f].is_new_session, on |-> call[f].on,
                      onState |-> "open"]
    /\ call' = [call EXCEPT ![f] = Idle]
    /\ actor' = f
    /\ UNCHANGED <<adapterSession, payload, now, tz, mapped>>

-----------------------------------------------------------------------------
(* Spec: two instances, the default days and language *)

Init ==
    /\ fac = [f \in Facades |-> Unbuilt]
    /\ adapterSession = [a \in Adapters |-> NoSession]
    /\ sessState = [s \in Sessions |-> IF s \in CallerSessions THEN "open" ELSE "unborn"]
    /\ call = [f \in Facades |-> Idle]
    /\ last = NoCall
    /\ actor = 0
    /\ payload = PyNone
    /\ mapped = <<>>
    /\ now = 3
    /\ tz = "UTC"

Next ==
    \E f \in Facades :
        \/ \E session \in {NoSession, CallerSession(f)}, api \in {DefaultAdapter, OwnAdapter(f)} :
              Construct(f, 14, "en", session, api)
        \/ \E resp \in Responses : fetch_data(f, resp)
        \/ async_fetch_data_start(f)
        \/ \E resp \in Responses : async_fetch_data_resume(f, resp)

Spec == Init /\ [][Next]_vars

-----------------------------------------------------------------------------
(* SpecParams: one instance, every days and language argument *)

DaysGiven == ((-1) .. MaxDaysGiven) \cup {20}

LanguagesGiven == SUPPORTED_LANGUAGES \cup {"xx", ""}

NextParams ==
    \/ \E days \in DaysGiven, language \in LanguagesGiven :
          Construct(1, days, language, NoSession, DefaultAdapter)
    \/ \E resp \in Responses : fetch_data(1, resp)
    \/ async_fetch_data_start(1)
    \/ \E resp \in Responses : async_fetch_data_resume(1, resp)

SpecParams == Init /\ [][NextParams]_vars

-----------------------------------------------------------------------------
(* SpecMapper: the mapper on every bounded payload *)

SeqsUpTo(S, n) == UNION {[1 .. k -> S] : k \in 0 .. n}

Epochs == 0 .. MaxEpoch

HourRows == {[datetimeEpoch |-> e, temp |-> 7] : e \in Epochs}

DayItems == {[datetimeEpoch |-> 0, tempmax |-> 18, hours |-> hs] : hs \in SeqsUpTo(HourRows, MaxHours)}

Payloads ==
    {PyNone, EmptyDict}
    \cup {PyDict([currentConditions |-> [datetimeEpoch |-> 0], days |-> ds]) :
            ds \in SeqsUpTo(DayItems, MaxDays)}

InitMapper ==
    /\ fac = [f \in Facades |-> Unbuilt]
    /\ adapterSession = [a \in Adapters |-> NoSession]
    /\ sessState = [s \in Sessions |-> IF s \in CallerSessions THEN "open" ELSE "unborn"]
    /\ call = [f \in Facades |-> Idle]
    /\ last = NoCall
    /\ actor = 0
    /\ payload \in Payloads
    /\ mapped = <<>>
    /\ now \in Epochs
    /\ tz \in {"UTC", "DST"}

\* _fetch_data(payload) once more; the clock stands still meanwhile.
map_payload ==
    /\ Len(mapped) < MaxRuns
    /\ mapped' = Append(mapped, _fetch_data(payload, now, tz))
    /\ UNCHANGED <<fac, adapterSession, sessState, call, last, actor, payload, now, tz>>

NextMapper == map_payload

SpecMapper == InitMapper /\ [][NextMapper]_vars

-----------------------------------------------------------------------------
(* Properties *)

Ended == last.mode # "none"

\* C1: in both variants a response status of 400 ends the facade call in
\* VisualCrossingBadRequest, 401 in VisualCrossingUnauthorized, 429 in
\* VisualCrossingTooManyRequests and 500 in VisualCrossingInternalServerError.
C1_MappedStatusRaises ==
    Ended =>
        /\ last.resp.status = 400 => last.exc = "VisualCrossingBadRequest"
        /\ last.resp.status = 401 => last.exc = "VisualCrossingUnauthorized"
        /\ last.resp.status = 429 => last.exc = "VisualCrossingTooManyRequests"
        /\ last.resp.status = 500 => last.exc = "VisualCrossingInternalServerError"

C1_Witness ==
    /\ last.mode = "async"
    /\ last.resp.status = 429
    /\ last.exc = "VisualCrossingTooManyRequests"

\* C2: in both variants any status other than 200, 400, 401, 429 and 500, and
\* any failure without a response, ends the fetch in VisualCrossingException.
C2_OtherFailuresRaiseAccessException ==
    (Ended /\ last.resp.status \notin ({200} \cup MappedStatuses))
        => last.exc = "VisualCrossingException"

\* C3: when a non-blocking fetch has ended, on whatever path, the session the
\* adapter made for it is closed; and a caller's session is never closed.
C3_SessionScoped ==
    /\ (last.mode = "async" /\ last.is_new_session) => sessState[last.on] = "closed"
    /\ \A f \in Facades : sessState[CallerSession(f)] # "closed"

\* C4: on an adapter that no other instance uses and that was given no
\* session, every non-blocking fetch issues its GET on a session that it
\* made itself and that is open.
C4_FreshSessionEachCall ==
    /\ \A f \in Facades :
          (call[f].pc = "await" /\ fac[f].api = OwnAdapter(f)
              /\ call[f].on \notin CallerSessions)
            => call[f].is_new_session
    /\ (last.mode = "async" /\ fac[last.f].api = OwnAdapter(last.f)
          /\ last.on \notin CallerSessions)
        => (last.is_new_session /\ last.onState = "open")

\* The session instance g's adapter holds.
SessionOf(g) == adapterSession[fac[g].api]

\* C5: a step of one instance (its construction, a fetch call) changes
\* neither the fields of another, constructed instance nor the session that
\* instance's adapter holds.
C5_NoSharedState ==
    [][\A g \in Facades :
          (g # actor' /\ fac[g].built)
            => (fac'[g] = fac[g] /\ SessionOf(g)' = SessionOf(g))]_vars

\* Exceptions of the two HTTP libraries that report a lost connection.
TransportErrors == {"URLError", "ClientError", "ConnectionError"}

ErrorKind(exc) == IF exc \in TransportErrors THEN "transport" ELSE exc

\* C6: a non-blocking fetch that got the provider's answer ends as the
\* blocking fetch ends on the same answer: the same model, null, or the same
\* kind of error.
C6_SameOutcome ==
    (last.mode = "async" /\ last.onState = "open")
        => LET sync == FacadeEnd(API_fetch_data(last.resp)) IN
           /\ ErrorKind(last.exc) = ErrorKind(sync.exc)
           /\ last.result = sync.result

\* The hour rows of a document, day by day, in input order.
RECURSIVE AllRows(_, _)
AllRows(days, i) ==
    IF i > Len(days) THEN <<>> ELSE days[i]["hours"] \o AllRows(days, i + 1)

RECURSIVE LaterThan(_, _, _)
LaterThan(rows, t, i) ==
    IF i > Len(rows) THEN <<>>
    ELSE IF rows[i]["datetimeEpoch"] > t
    THEN <<rows[i]>> \o LaterThan(rows, t, i + 1)
    ELSE LaterThan(rows, t, i + 1)

ExpectedHourly ==
    LET rows == LaterThan(AllRows(payload.d["days"], 1), now, 1) IN
    [i \in 1 .. Len(rows) |-> ForecastHourlyData(tz, rows[i])]

\* C7: at a fixed clock, forecast_hourly holds exactly the hour entries whose
\* timestamp is strictly later than the clock, in input order, and mapping
\* the payload again gives the same sequence.
C7_HourlyFutureFilter ==
    \A i \in 1 .. Len(mapped) :
        mapped[i].tag = "ForecastData"
            => /\ mapped[i].forecast_hourly = ExpectedHourly
               /\ mapped[i] = mapped[1]

Min(a, b) == IF a < b THEN a ELSE b

\* C8: the days argument of every fetch is min(days given at construction, 14).
C8_DaysClamped ==
    /\ Ended => last.req.days = Min(fac[last.f].givenDays, 14)
    /\ \A f \in Facades :
          call[f].pc = "await" => call[f].req.days = Min(fac[f].givenDays, 14)

C8_Witness ==
    /\ Ended
    /\ fac[last.f].givenDays = 20
    /\ last.req.days = 14

\* C9: the language argument of every fetch is the language given at
\* construction when that is a supported language, and "en" otherwise.
C9_LanguageFallback ==
    /\ Ended =>
          /\ fac[last.f].givenLanguage \in SUPPORTED_LANGUAGES
                => last.req.language = fac[last.f].givenLanguage
          /\ fac[last.f].givenLanguage \notin SUPPORTED_LANGUAGES
                => last.req.language = "en"
    /\ \A f \in Facades :
          call[f].pc = "await" =>
              /\ fac[f].givenLanguage \in SUPPORTED_LANGUAGES
                    => call[f].req.language = fac[f].givenLanguage
              /\ fac[f].givenLanguage \notin SUPPORTED_LANGUAGES
                    => call[f].req.language = "en"

C9_Witness ==
    /\ Ended
    /\ fac[last.f].givenLanguage = "xx"
    /\ last.req.language = "en"

\* C10, as claimed: when the adapter returns None or an empty document, the
\* facade call returns None and raises nothing.
C10_NullOrEmptyGivesNull ==
    (Ended /\ last.raw \in {PyNone, EmptyDict})
        => (last.exc = "" /\ last.result = PyNone)

\* C10, amended: when the adapter returns None, the facade call returns None
\* and raises nothing.
C10_NullGivesNull ==
    (Ended /\ last.raw = PyNone) => (last.exc = "" /\ last.result = PyNone)

C10_Witness ==
    /\ last.mode = "async"
    /\ last.resp = [status |-> 200, body |-> "null"]
    /\ last.raw = PyNone
    /\ last.exc = ""
    /\ last.result = PyNone

=============================================================================
